---- MODULE Spec2Model ----
(***************************************************************************)
(* Model of src/app.py (streetfetcher): the OSM-response-to-GeoJSON        *)
(* conversion (create_geometry, osm_to_geojson, validate_geojson), the     *)
(* Overpass query builders, the generate fan-out/gather                    *)
(* (generate_geojson_concurrent) and the Streamlit session state that      *)
(* main() reads and writes.                                                *)
(*                                                                         *)
(* Three specifications share the variables:                               *)
(*   SpecConv   the conversion functions applied to bounded responses      *)
(*   SpecQuery  the query builders applied to bounded place descriptors    *)
(*   Spec       the session: validate / generate boundary / generate       *)
(*              streets, one script run per button press                   *)
(***************************************************************************)
EXTENDS Integers, Sequences, FiniteSets, TLC

VARIABLES
    validated_location,  \* st.session_state.validated_location: {} when the key is absent, {descriptor} otherwise
    current_geojson,     \* st.session_state.current_geojson:    {} when the key is absent, {collection} otherwise
    map_type,            \* st.session_state.map_type:           {} when the key is absent, {"boundary"} or {"streets"}
    geojson_for,         \* history: the descriptor the generate call that filled current_geojson was given
    call                 \* history: the last function call / script run, its inputs, result and messages

vars == <<validated_location, current_geojson, map_type, geojson_for, call>>

(***************************************************************************)
(* Bounds of the model                                                     *)
(***************************************************************************)
Width   == 2   \* unit squares sit at longitudes 0..Width-1 of a strip of latitude 0..1
MaxWays == 2   \* way elements in one response

(***************************************************************************)
(* Python values                                                           *)
(***************************************************************************)
\* Python's None where a geometry dict is expected
None == [type |-> "None"]

\* a JSON value that is not a number, in a coordinate slot
NotANumber == -1

Min(S) == CHOOSE x \in S : \A y \in S : x <= y
Max(S) == CHOOSE x \in S : \A y \in S : x >= y

Node(lon, lat) == [lon |-> lon, lat |-> lat]

\* the rings and paths the bounded responses are made of
\* unit square at longitude a: 5 coordinate pairs, first = last
SquareClosed(a) == <<Node(a, 0), Node(a + 1, 0), Node(a + 1, 1), Node(a, 1), Node(a, 0)>>
\* the same square with the closing pair left out: 4 coordinate pairs, first # last
SquareOpen(a) == <<Node(a, 0), Node(a + 1, 0), Node(a + 1, 1), Node(a, 1)>>
\* a triangle apart from every square: 4 coordinate pairs, first = last
TriCell == Width + 1
TriangleClosed == <<Node(TriCell, 0), Node(TriCell + 1, 0), Node(TriCell + 1, 1), Node(TriCell, 0)>>

ShortGeoms ==
    { <<>>,
      <<Node(0, 0)>>,
      <<Node(0, 0), Node(1, 0)>>,
      <<Node(0, 0), Node(1, 0), Node(0, 0)>> }

WayGeoms ==
    ShortGeoms \cup {TriangleClosed}
      \cup {SquareClosed(a) : a \in 0..(Width - 1)}
      \cup {SquareOpen(a) : a \in 0..(Width - 1)}

\* tags of the way with identifier id: odd identifiers carry a name
WayTags(id) == IF id % 2 = 1 THEN {"name"} ELSE {}

Way(id, geometry) ==
    [type |-> "way", id |-> id, geometry |-> geometry, members |-> <<>>, tags |-> WayTags(id)]

Relation(members) ==
    [type |-> "relation", id |-> 100, geometry |-> <<>>, members |-> members, tags |-> {"name"}]

NodeElement ==
    [type |-> "node", id |-> 200, geometry |-> <<>>, members |-> <<>>, tags |-> {}]

\* the members a relation is made of, in the order they are listed: the outer
\* ways 1..MaxWays, an outer way that is not in the response, an inner way and
\* an outer node
Members ==
    [r \in 1..(MaxWays + 1) |-> [type |-> "way", ref |-> r, role |-> "outer"]]
      \o <<[type |-> "way", ref |-> 1, role |-> "inner"],
           [type |-> "node", ref |-> 1, role |-> "outer"]>>

\* the members of list whose position is in I, in list order
RECURSIVE Pick(_, _, _)
Pick(list, I, k) ==
    IF k > Len(list) THEN <<>>
    ELSE (IF k \in I THEN <<list[k]>> ELSE <<>>) \o Pick(list, I, k + 1)

MemberSeqs == {Pick(Members, I, 1) : I \in SUBSET (1..Len(Members))}

WayGeomSeqs == UNION {[1..n -> WayGeoms] : n \in 0..MaxWays}

WaysPart(gs) == [i \in 1..Len(gs) |-> Way(i, gs[i])]

\* the responses: the ways 1..n, then nothing, a node or a relation
Responses ==
    { WaysPart(gs) \o r :
        gs \in WayGeomSeqs,
        r \in {<<>>, <<NodeElement>>} \cup {<<Relation(ms)>> : ms \in MemberSeqs} }

(***************************************************************************)
(* shapely, as far as create_geometry uses it.  Every ring of 4 or more    *)
(* pairs in WayGeoms is a unit square of the strip or the triangle, so a   *)
(* polygon is the set of unit cells it covers.                             *)
(***************************************************************************)
Lons(coords) == {coords[i][1] : i \in 1..Len(coords)}

\* shapely.geometry.Polygon(coords): the ring is closed implicitly when its
\* first and last pair differ
Polygon(coords) == [cells |-> Min(Lons(coords))..(Max(Lons(coords)) - 1)]

RectRing(a, b) == <<<<a, 0>>, <<b, 0>>, <<b, 1>>, <<a, 1>>, <<a, 0>>>>
TriRing == <<<<TriCell, 0>>, <<TriCell + 1, 0>>, <<TriCell + 1, 1>>, <<TriCell, 0>>>>

\* the end of the run of cells of S that starts at a
RECURSIVE RunEnd(_, _)
RunEnd(S, a) == IF (a + 1) \in S THEN RunEnd(S, a + 1) ELSE a + 1

RECURSIVE SortedSeq(_)
SortedSeq(S) == IF S = {} THEN <<>> ELSE <<Min(S)>> \o SortedSeq(S \ {Min(S)})

\* shapely.ops.unary_union followed by make_valid: the connected parts of
\* the union, each with its exterior ring
unary_union(polys) ==
    LET S == UNION {polys[i].cells : i \in 1..Len(polys)}
        starts == SortedSeq({c \in S : (c - 1) \notin S})
    IN  [i \in 1..Len(starts) |->
            IF starts[i] = TriCell THEN TriRing
            ELSE RectRing(starts[i], RunEnd(S, starts[i]))]

(***************************************************************************)
(* create_geometry                                                         *)
(***************************************************************************)
Coords(geometry) == [i \in 1..Len(geometry) |-> <<geometry[i].lon, geometry[i].lat>>]

\* ways.get(ref, {}).get('geometry', [])
WayGeometry(ways, ref) == IF ref \in DOMAIN ways THEN ways[ref].geometry ELSE <<>>

RECURSIVE OuterWays(_, _)
OuterWays(members, ways) ==
    IF members = <<>> THEN <<>>
    ELSE LET m == Head(members)
             way_coords == Coords(WayGeometry(ways, m.ref))
         IN  (IF m.type = "way" /\ m.role = "outer" /\ Len(way_coords) >= 4
              THEN <<Polygon(way_coords)>>
              ELSE <<>>) \o OuterWays(Tail(members), ways)

\* WayGeometryOf without the closure test
WayGeometryOf_NoClosureTest(element) ==
    LET coords == Coords(element.geometry)
    IN  IF Len(coords) < 2 THEN None
        ELSE IF Len(coords) >= 4
             THEN [type |-> "Polygon", coordinates |-> <<coords>>]
             ELSE [type |-> "LineString", coordinates |-> coords]

WayGeometryOf(element) ==
    LET coords == Coords(element.geometry)
    IN  IF Len(coords) < 2 THEN None
        ELSE IF Len(coords) >= 4 /\ coords[1] = coords[Len(coords)]
             THEN [type |-> "Polygon", coordinates |-> <<coords>>]
             ELSE [type |-> "LineString", coordinates |-> coords]

\* geos_raises: whether the geometry library raises in unary_union/make_valid
RelationGeometryOf(element, ways, geos_raises) ==
    LET outer_ways == OuterWays(element.members, ways)
    IN  IF outer_ways = <<>> THEN [geometry |-> None, warnings |-> <<>>]
        ELSE IF geos_raises
             THEN [geometry |-> None,
                   warnings |-> <<[kind |-> "warning", text |-> "Error creating geometry for relation", id |-> element.id]>>]
             ELSE LET multi_poly == unary_union(outer_ways)
                  IN  IF Len(multi_poly) = 1
                      THEN [geometry |-> [type |-> "Polygon", coordinates |-> <<multi_poly[1]>>],
                            warnings |-> <<>>]
                      ELSE [geometry |-> [type |-> "MultiPolygon",
                                          coordinates |-> [i \in 1..Len(multi_poly) |-> <<multi_poly[i]>>]],
                            warnings |-> <<>>]

\* the result is the returned geometry (None for no geometry) and the
\* st.warning messages the call shows
create_geometry(element, ways, streets_only, geos_raises) ==
    IF element.type = "way"
    THEN [geometry |-> WayGeometryOf(element), warnings |-> <<>>]
    ELSE IF ~streets_only /\ element.type = "relation"
         THEN RelationGeometryOf(element, ways, geos_raises)
         ELSE [geometry |-> None, warnings |-> <<>>]

(***************************************************************************)
(* osm_to_geojson                                                          *)
(***************************************************************************)
\* {e['id']: e for e in osm_data['elements'] if e['type'] == 'way'}: a later
\* element replaces an earlier one with the same id
ElementIndex(elements) ==
    LET ids == {elements[i].id : i \in {j \in 1..Len(elements) : elements[j].type = "way"}}
    IN  [id \in ids |->
            elements[Max({j \in 1..Len(elements) : elements[j].type = "way" /\ elements[j].id = id})]]

Feature(element, geometry) ==
    [type |-> "Feature",
     properties |-> [name |-> IF "name" \in element.tags THEN "name" ELSE "Unknown",
                     osm_id |-> element.id,
                     osm_type |-> element.type,
                     geometry |-> geometry],
     geometry |-> geometry]

RECURSIVE Assemble(_, _, _, _)
Assemble(elements, ways, streets_only, geos_raises) ==
    IF elements = <<>> THEN [features |-> <<>>, warnings |-> <<>>]
    ELSE LET element == Head(elements)
             rest == Assemble(Tail(elements), ways, streets_only, geos_raises)
         IN  IF streets_only /\ element.type # "way" THEN rest
             ELSE LET g == create_geometry(element, ways, streets_only, geos_raises)
                  IN  [features |-> (IF g.geometry # None
                                     THEN <<Feature(element, g.geometry)>>
                                     ELSE <<>>) \o rest.features,
                       warnings |-> g.warnings \o rest.warnings]

osm_to_geojson(elements, streets_only, geos_raises) ==
    LET a == Assemble(elements, ElementIndex(elements), streets_only, geos_raises)
    IN  [geojson |-> [type |-> "FeatureCollection", features |-> a.features],
         warnings |-> a.warnings]

(***************************************************************************)
(* Python int and str.  A Python int has no width: it is modelled by its   *)
(* decimal digits, most significant first, without leading zeros.          *)
(***************************************************************************)
RECURSIVE Big(_)
Big(n) == IF n < 10 THEN <<n>> ELSE Big(n \div 10) \o <<n % 10>>

\* digit i of a counted from the least significant one, 0 beyond the length
DigitFromRight(a, i) == IF i <= Len(a) THEN a[Len(a) - i + 1] ELSE 0

RECURSIVE AddFrom(_, _, _, _)
AddFrom(a, b, i, carry) ==
    IF i > Len(a) /\ i > Len(b)
    THEN (IF carry = 0 THEN <<>> ELSE <<carry>>)
    ELSE LET s == DigitFromRight(a, i) + DigitFromRight(b, i) + carry
         IN  AddFrom(a, b, i + 1, s \div 10) \o <<s % 10>>

\* a + b on Python ints
Add(a, b) == AddFrom(a, b, 1, 0)

DigitChar == <<"0", "1", "2", "3", "4", "5", "6", "7", "8", "9">>

\* str(n) of a Python int, as f"{n}" formats it
str(n) == [i \in 1..Len(n) |-> DigitChar[n[i] + 1]]

\* the text of osm_type
TypeText(osm_type) ==
    CASE osm_type = "relation" -> <<"r", "e", "l", "a", "t", "i", "o", "n">>
      [] osm_type = "way" -> <<"w", "a", "y">>
      [] osm_type = "node" -> <<"n", "o", "d", "e">>

(***************************************************************************)
(* The query builders.  A query is the sequence of its characters.         *)
(***************************************************************************)
build_overpass_query(location) ==
    <<"[", "o", "u", "t", ":", "j", "s", "o", "n", "]", ";">> \o TypeText(location.osm_type) \o <<"(">> \o str(location.osm_id)
      \o <<")", ";", "(", ".", "_", ";", ">", ";", ")", ";", "o", "u", "t", " ", "g", "e",
      "o", "m", ";">>

\* 3600000000
AreaOffset == <<3, 6, 0, 0, 0, 0, 0, 0, 0, 0>>

\* area_id with the offset applied whatever the osm_type
area_id_OffsetAlways(location) == Add(location.osm_id, AreaOffset)

area_id(location) ==
    IF location.osm_type = "relation" THEN Add(location.osm_id, AreaOffset) ELSE location.osm_id

build_streets_overpass_query(location) ==
    <<"[", "o", "u", "t", ":", "j", "s", "o", "n", "]", ";">> \o <<"a", "r", "e", "a", "(">> \o str(area_id(location))
      \o <<")", "-", ">", ".", "s", "e", "a", "r", "c", "h", "A", "r", "e", "a", ";", "(",
      "w", "a", "y", "[", "'", "h", "i", "g", "h", "w", "a", "y", "'", "]", "[", "'",
      "h", "i", "g", "h", "w", "a", "y", "'", "!", "~", "'", "p", "a", "t", "h", "|",
      "f", "o", "o", "t", "w", "a", "y", "|", "c", "y", "c", "l", "e", "w", "a", "y",
      "|", "b", "r", "i", "d", "l", "e", "w", "a", "y", "|", "s", "t", "e", "p", "s",
      "|", "p", "l", "a", "t", "f", "o", "r", "m", "|", "c", "o", "n", "s", "t", "r",
      "u", "c", "t", "i", "o", "n", "'", "]", "[", "'", "a", "r", "e", "a", "'", "!",
      "~", "'", "y", "e", "s", "'", "]", "(", "a", "r", "e", "a", ".", "s", "e", "a",
      "r", "c", "h", "A", "r", "e", "a", ")", ";", ")", ";", "o", "u", "t", " ", "g",
      "e", "o", "m", ";">>

(***************************************************************************)
(* SpecConv: the conversion applied to every bounded response              *)
(***************************************************************************)
InitSession ==
    /\ validated_location = {}
    /\ current_geojson = {}
    /\ map_type = {}
    /\ geojson_for = {}

InitConv ==
    /\ InitSession
    /\ \E elements \in Responses : call = [op |-> "input", elements |-> elements]

CallCreateGeometry ==
    /\ call.op = "input"
    /\ \E i \in 1..Len(call.elements), streets_only \in BOOLEAN, geos_raises \in BOOLEAN :
           call' = [op |-> "create_geometry",
                    element |-> call.elements[i],
                    ways |-> ElementIndex(call.elements),
                    streets_only |-> streets_only,
                    geos_raises |-> geos_raises,
                    result |-> create_geometry(call.elements[i], ElementIndex(call.elements),
                                               streets_only, geos_raises)]
    /\ UNCHANGED <<validated_location, current_geojson, map_type, geojson_for>>

CallOsmToGeojson ==
    /\ call.op = "input"
    /\ \E streets_only \in BOOLEAN, geos_raises \in BOOLEAN :
           call' = [op |-> "osm_to_geojson",
                    elements |-> call.elements,
                    streets_only |-> streets_only,
                    geos_raises |-> geos_raises,
                    result |-> osm_to_geojson(call.elements, streets_only, geos_raises)]
    /\ UNCHANGED <<validated_location, current_geojson, map_type, geojson_for>>

NextConv == CallCreateGeometry \/ CallOsmToGeojson

SpecConv == InitConv /\ [][NextConv]_vars

(***************************************************************************)
(* SpecQuery: the query builders applied to every bounded place descriptor *)
(***************************************************************************)
MaxOsmId == 130   \* the identifiers 0..MaxOsmId are tried, and LargeIds

\* identifiers whose sum with the offset carries
LargeIds ==
    { <<9, 9, 9, 9, 9, 9, 9, 9>>,
      <<4, 0, 0, 0, 0, 0, 0, 0, 0>>,
      <<6, 4, 0, 0, 0, 0, 0, 0, 0, 0>>,
      <<9, 9, 9, 9, 9, 9, 9, 9, 9, 9>> }

OsmIds == {Big(n) : n \in 0..MaxOsmId} \cup LargeIds

OsmTypes == {"node", "way", "relation"}

\* a record of the Nominatim reply, as far as the program reads it
Place(osm_id, osm_type, display_name) ==
    [osm_id |-> osm_id, osm_type |-> osm_type, display_name |-> display_name]

InitQuery ==
    /\ InitSession
    /\ \E id \in OsmIds, t \in OsmTypes :
          call = [op |-> "input", location |-> Place(id, t, "Testville")]

CallBuildOverpassQuery ==
    /\ call.op = "input"
    /\ call' = [op |-> "build_overpass_query",
                location |-> call.location,
                result |-> build_overpass_query(call.location)]
    /\ UNCHANGED <<validated_location, current_geojson, map_type, geojson_for>>

CallBuildStreetsOverpassQuery ==
    /\ call.op = "input"
    /\ call' = [op |-> "build_streets_overpass_query",
                location |-> call.location,
                result |-> build_streets_overpass_query(call.location)]
    /\ UNCHANGED <<validated_location, current_geojson, map_type, geojson_for>>

NextQuery == CallBuildOverpassQuery \/ CallBuildStreetsOverpassQuery

SpecQuery == InitQuery /\ [][NextQuery]_vars

(***************************************************************************)
(* validate_geojson                                                        *)
(***************************************************************************)
NumericPairs(coords) ==
    \A i \in 1..Len(coords) : coords[i][1] # NotANumber /\ coords[i][2] # NotANumber

NumericRings(rings) == \A i \in 1..Len(rings) : NumericPairs(rings[i])

\* shapely.geometry.shape(geometry) returns (TRUE) or raises (FALSE)
shape(geometry) ==
    CASE geometry.type = "LineString" -> NumericPairs(geometry.coordinates)
      [] geometry.type = "Polygon" -> NumericRings(geometry.coordinates)
      [] geometry.type = "MultiPolygon" ->
            \A i \in 1..Len(geometry.coordinates) : NumericRings(geometry.coordinates[i])
      [] OTHER -> FALSE

Message(kind, text) == [kind |-> kind, text |-> text, id |-> 0]

validate_geojson(geojson_data) ==
    LET ok == \A i \in 1..Len(geojson_data.features) : shape(geojson_data.features[i].geometry)
    IN  [result |-> ok,
         messages |-> IF ok THEN <<>> ELSE <<Message("error", "Validation error")>>]

(***************************************************************************)
(* make_request, validate_location                                         *)
(***************************************************************************)
The(S) == CHOOSE x \in S : TRUE

\* the places the lookup service can answer with
SessionLocations ==
    { Place(Big(123), "relation", "Testville"),
      Place(Big(45), "way", "Smallville") }

\* what requests.request / raise_for_status / response.json() do with one
\* request: raise a RequestException (unreachable, non-2xx, malformed JSON)
\* or give the decoded list of matches
LookupReplies ==
    {[kind |-> "request_exception", body |-> <<>>], [kind |-> "json", body |-> <<>>]}
      \cup {[kind |-> "json", body |-> <<l>>] : l \in SessionLocations}

make_request(reply) ==
    IF reply.kind = "request_exception"
    THEN [response |-> {}, messages |-> <<Message("error", "API request failed")>>]
    ELSE [response |-> {reply.body}, messages |-> <<>>]

validate_location(reply) ==
    LET r == make_request(reply)
    IN  IF r.response # {} /\ The(r.response) # <<>>
        THEN [result |-> {The(r.response)[1]}, messages |-> r.messages]
        ELSE [result |-> {}, messages |-> r.messages]

(***************************************************************************)
(* generate_geojson_concurrent                                             *)
(***************************************************************************)
chunk_size == 500

\* bounds standing for num_rows = 50 and num_cols = 50
num_rows == 1
num_cols == 2

\* [query[i:i + chunk_size] for i in range(0, len(query), chunk_size)]
Chunks(query) ==
    [k \in 1..((Len(query) + chunk_size - 1) \div chunk_size) |->
        SubSeq(query, (k - 1) * chunk_size + 1,
               IF k * chunk_size < Len(query) THEN k * chunk_size ELSE Len(query))]

\* the element lists an Overpass reply of the session carries
SessionResponses ==
    { <<>>,
      <<Way(1, SquareClosed(0))>>,
      <<Way(1, <<Node(0, 0), Node(NotANumber, 1)>>)>>,
      <<Way(1, SquareClosed(0)), Way(2, SquareClosed(2)),
        Relation(<<[type |-> "way", ref |-> 1, role |-> "outer"],
                   [type |-> "way", ref |-> 2, role |-> "outer"]>>)>> }

\* what one POST to the Overpass API comes back with
ChunkReply(kind, status, json, has_elements, elements) ==
    [kind |-> kind, status |-> status, json |-> json, has_elements |-> has_elements,
     elements |-> elements]

ChunkReplies ==
    {ChunkReply("connection_error", 0, FALSE, FALSE, <<>>),
     ChunkReply("response", 200, FALSE, FALSE, <<>>),
     ChunkReply("response", 504, FALSE, FALSE, <<>>),
     ChunkReply("response", 504, TRUE, FALSE, <<>>)}
      \cup {ChunkReply("response", 200, TRUE, TRUE, e) : e \in SessionResponses}

\* fetch_osm_data: session.post raises when the API is unreachable and
\* response.json() raises when the body is not JSON; the status is not read
fetch_osm_data(reply) ==
    IF reply.kind = "connection_error" \/ ~reply.json
    THEN [raises |-> TRUE, value |-> reply]
    ELSE [raises |-> FALSE, value |-> reply]

\* r.get('elements', [])
ElementsOf(r) == IF r.has_elements THEN r.elements ELSE <<>>

RECURSIVE Extend(_, _)
Extend(responses, k) ==
    IF k > Len(responses) THEN <<>>
    ELSE ElementsOf(responses[k]) \o Extend(responses, k + 1)

\* the boxes of the grid, row by row
Boxes == [k \in 1..(num_rows * num_cols) |-> <<(k - 1) \div num_cols, (k - 1) % num_cols>>]

\* what ox.features_from_polygon does for one box: raise, give a frame with
\* one street, or give a frame with one row whose geometry is missing
CellReplies == {"raise", "street", "missing_geometry"}

StreetRow(k, reply) ==
    [type |-> "Feature",
     properties |-> [name |-> "Unknown", osm_id |-> k, osm_type |-> "way", geometry |-> None],
     geometry |-> IF reply = "street"
                  THEN [type |-> "LineString", coordinates |-> <<<<k, 0>>, <<k + 1, 0>>>>]
                  ELSE None]

\* fetch_osm_data_osmnx: the frame, or None with an error shown
fetch_osm_data_osmnx(k, reply) ==
    IF reply = "raise"
    THEN [gdf |-> {}, messages |-> <<Message("error", "Error retrieving street data using osmnx")>>]
    ELSE [gdf |-> {<<StreetRow(k, reply)>>}, messages |-> <<>>]

\* pd.concat(gdfs, ignore_index=True): None entries are dropped
RECURSIVE Concat(_, _)
Concat(gdfs, k) ==
    IF k > Len(gdfs) THEN <<>>
    ELSE (IF gdfs[k].gdf = {} THEN <<>> ELSE The(gdfs[k].gdf)) \o Concat(gdfs, k + 1)

RECURSIVE Messages(_, _)
Messages(gdfs, k) ==
    IF k > Len(gdfs) THEN <<>> ELSE gdfs[k].messages \o Messages(gdfs, k + 1)

\* json.loads(gdf.to_json())
to_json(rows) == [type |-> "FeatureCollection", features |-> rows]

OsmnxError == Message("error", "Error retrieving street data using osmnx")

StreetsPath(location, env) ==
    IF location.osm_type = "relation"
    THEN IF env.geocode_raises
         THEN [fault |-> FALSE, result |-> {}, messages |-> <<OsmnxError>>]
         ELSE LET gdfs == [k \in 1..Len(Boxes) |-> fetch_osm_data_osmnx(k, env.grid[k])]
              IN  IF \A k \in 1..Len(gdfs) : gdfs[k].gdf = {}
                  THEN [fault |-> FALSE, result |-> {},
                        messages |-> Messages(gdfs, 1) \o <<OsmnxError>>]
                  ELSE [fault |-> FALSE, result |-> {to_json(Concat(gdfs, 1))},
                        messages |-> Messages(gdfs, 1)]
    ELSE IF env.graph = "raise"
         THEN [fault |-> FALSE, result |-> {}, messages |-> <<OsmnxError>>]
         ELSE [fault |-> FALSE, result |-> {to_json(<<StreetRow(1, env.graph)>>)}, messages |-> <<>>]

\* query_builder(location), query_builder being one of the two builders
CallBuilder(query_builder, location) ==
    IF query_builder = "build_overpass_query"
    THEN build_overpass_query(location)
    ELSE build_streets_overpass_query(location)

ChunkedPath(location, query_builder, streets_only, env) ==
    LET queries == Chunks(CallBuilder(query_builder, location))
        fetched == [k \in 1..Len(queries) |-> fetch_osm_data(env.chunk_replies[k])]
    IN  IF \E k \in 1..Len(fetched) : fetched[k].raises
        THEN [fault |-> TRUE, result |-> {}, messages |-> <<>>]
        ELSE LET responses == [k \in 1..Len(fetched) |-> fetched[k].value]
                 conv == osm_to_geojson(Extend(responses, 1), streets_only, env.geos_raises)
                 valid == validate_geojson(conv.geojson)
             IN  IF valid.result
                 THEN [fault |-> FALSE, result |-> {conv.geojson}, messages |-> conv.warnings]
                 ELSE [fault |-> FALSE, result |-> {},
                       messages |-> conv.warnings \o valid.messages
                                      \o <<Message("error", "Generated GeoJSON is not valid.")>>]

\* fault: an exception leaves the function; result: {} for None
generate_geojson_concurrent(location, query_builder, streets_only, env) ==
    IF streets_only
    THEN StreetsPath(location, env)
    ELSE ChunkedPath(location, query_builder, streets_only, env)

generate_geojson_wrapper(location, query_builder, streets_only, env) ==
    generate_geojson_concurrent(location, query_builder, streets_only, env)

(***************************************************************************)
(* main: one script run per button press                                   *)
(***************************************************************************)
\* the results block of the run: header, tabs and download button
Displayed(location, geojson, type) ==
    IF geojson = {} THEN {}
    ELSE {[place |-> The(location).display_name,
           map_type |-> The(type),
           geojson |-> The(geojson),
           file_name |-> <<The(location).display_name, The(type), "geojson">>]}

Env(chunk_replies, geos_raises, geocode_raises, grid, graph) ==
    [chunk_replies |-> chunk_replies, geos_raises |-> geos_raises,
     geocode_raises |-> geocode_raises, grid |-> grid, graph |-> graph]

NoGrid == [k \in 1..Len(Boxes) |-> "raise"]

ValidateLocation ==
    \E reply \in LookupReplies :
        LET v == validate_location(reply)
            located == IF v.result # {} THEN v.result ELSE validated_location
        IN  /\ validated_location' = located
            /\ UNCHANGED <<current_geojson, map_type, geojson_for>>
            /\ call' = [op |-> "validate_location",
                        location |-> validated_location,
                        env |-> reply,
                        fault |-> FALSE,
                        returned |-> v.result,
                        messages |-> v.messages \o
                            (IF v.result # {}
                             THEN <<Message("success", "Location validated successfully!")>>
                             ELSE <<Message("error", "Location not found. Please check your input.")>>),
                        displayed |-> Displayed(located, current_geojson, map_type)]

\* what main does with the value of generate_geojson_wrapper
Generate(op, type, env, g) ==
    /\ IF ~g.fault /\ g.result # {}
       THEN /\ current_geojson' = g.result
            /\ map_type' = {type}
            /\ geojson_for' = validated_location
       ELSE UNCHANGED <<current_geojson, map_type, geojson_for>>
    /\ UNCHANGED validated_location
    /\ call' = [op |-> op,
                location |-> validated_location,
                env |-> env,
                fault |-> g.fault,
                returned |-> g.result,
                messages |-> IF ~g.fault /\ g.result # {}
                             THEN g.messages \o <<Message("success", "GeoJSON generated successfully!")>>
                             ELSE g.messages,
                displayed |-> IF g.fault THEN {}
                              ELSE Displayed(validated_location, current_geojson', map_type')]

GenerateBoundary ==
    /\ validated_location # {}
    /\ \E chunk_replies \in
            [1..Len(Chunks(build_overpass_query(The(validated_location)))) -> ChunkReplies],
          geos_raises \in BOOLEAN :
          LET env == Env(chunk_replies, geos_raises, FALSE, NoGrid, "raise")
          IN  Generate("generate_boundary", "boundary", env,
                       generate_geojson_wrapper(The(validated_location), "build_overpass_query",
                                                FALSE, env))

GenerateStreets ==
    /\ validated_location # {}
    /\ \E geocode_raises \in BOOLEAN, grid \in [1..Len(Boxes) -> CellReplies], graph \in CellReplies :
          /\ The(validated_location).osm_type = "relation" => graph = "raise"
          /\ The(validated_location).osm_type # "relation" => geocode_raises = FALSE /\ grid = NoGrid
          /\ geocode_raises => grid = NoGrid
          /\ LET env == Env(<<>>, FALSE, geocode_raises, grid, graph)
             IN  Generate("generate_streets", "streets", env,
                          generate_geojson_wrapper(The(validated_location),
                                                   "build_streets_overpass_query", TRUE, env))

Init ==
    /\ InitSession
    /\ call = [op |-> "start"]

Next == ValidateLocation \/ GenerateBoundary \/ GenerateStreets

Spec == Init /\ [][Next]_vars

(***************************************************************************)
(* Properties of the conversion (SpecConv)                                 *)
(***************************************************************************)
Closed(geometry) == geometry[1] = geometry[Len(geometry)]

\* the coordinate pairs of result are the nodes of geometry, in input order
SamePairs(result, geometry) ==
    /\ Len(result) = Len(geometry)
    /\ \A i \in 1..Len(geometry) : result[i] = <<geometry[i].lon, geometry[i].lat>>

\* C1: a way of 2 or more coordinate pairs converted with streets_only = TRUE
\* gives a LineString, closed or not, from create_geometry and in every
\* feature of osm_to_geojson.
C1_StreetsWayIsLineString ==
    /\ (call.op = "create_geometry" /\ call.streets_only /\ call.element.type = "way"
          /\ Len(call.element.geometry) >= 2)
         => call.result.geometry.type = "LineString"
    /\ (call.op = "osm_to_geojson" /\ call.streets_only)
         => \A i \in 1..Len(call.result.geojson.features) :
               call.result.geojson.features[i].geometry.type = "LineString"

\* C2: a way converted with streets_only = FALSE gives no geometry below 2
\* coordinate pairs, a Polygon of exactly one ring equal to the input pairs
\* when it has 4 or more pairs and first = last, and otherwise a LineString of
\* the input pairs in input order.
C2_WayBoundaryMode ==
    (call.op = "create_geometry" /\ ~call.streets_only /\ call.element.type = "way")
      => LET geometry == call.element.geometry
             result == call.result.geometry
         IN  IF Len(geometry) < 2 THEN result = None
             ELSE IF Len(geometry) >= 4 /\ Closed(geometry)
                  THEN /\ result.type = "Polygon"
                       /\ Len(result.coordinates) = 1
                       /\ SamePairs(result.coordinates[1], geometry)
                  ELSE /\ result.type = "LineString"
                       /\ SamePairs(result.coordinates, geometry)

\* C2 witness: a closed way of exactly 4 pairs became a one-ring Polygon in
\* boundary mode
C2_Witness ==
    /\ call.op = "create_geometry"
    /\ ~call.streets_only
    /\ call.element.type = "way"
    /\ Len(call.element.geometry) = 4
    /\ Closed(call.element.geometry)
    /\ call.result.geometry.type = "Polygon"

\* member m of a relation is an outer way
OuterWayMember(m) == m.type = "way" /\ m.role = "outer"

\* member m resolves to a valid ring: present in the index, 4 or more pairs,
\* first = last
ValidOuterRing(ways, m) ==
    /\ OuterWayMember(m)
    /\ m.ref \in DOMAIN ways
    /\ Len(ways[m.ref].geometry) >= 4
    /\ Closed(ways[m.ref].geometry)

\* C3: a relation converted in boundary mode whose outer way members are all
\* absent from the index or invalid rings gives no Feature, and a warning for
\* it is recorded.
C3_NoValidOuterRingWarns ==
    (call.op = "osm_to_geojson" /\ ~call.streets_only)
      => \A r \in 1..Len(call.elements) :
            LET element == call.elements[r]
                ways == ElementIndex(call.elements)
            IN  (/\ element.type = "relation"
                 /\ \E k \in 1..Len(element.members) : OuterWayMember(element.members[k])
                 /\ \A k \in 1..Len(element.members) : ~ValidOuterRing(ways, element.members[k]))
                  => /\ \A i \in 1..Len(call.result.geojson.features) :
                           call.result.geojson.features[i].properties.osm_id # element.id
                     /\ \E w \in 1..Len(call.result.warnings) :
                           call.result.warnings[w].id = element.id

\* C4: a relation converted in boundary mode with exactly one valid outer
\* ring, whatever its invalid outer ways, gives a Polygon whose single ring is
\* the valid ring.
C4_OneValidRingIsPolygon ==
    (call.op = "create_geometry" /\ ~call.streets_only /\ ~call.geos_raises
        /\ call.element.type = "relation")
      => LET members == call.element.members
             valid == {k \in 1..Len(members) : ValidOuterRing(call.ways, members[k])}
         IN  Cardinality(valid) = 1
               => /\ call.result.geometry.type = "Polygon"
                  /\ Len(call.result.geometry.coordinates) = 1
                  /\ SamePairs(call.result.geometry.coordinates[1],
                               call.ways[members[The(valid)].ref].geometry)

(***************************************************************************)
(* Properties of the query builders (SpecQuery)                            *)
(***************************************************************************)
RECURSIVE Val(_)
Val(digits) == IF digits = <<>> THEN 0 ELSE 10 * Val(SubSeq(digits, 1, Len(digits) - 1)) + digits[Len(digits)]

\* a number of any size as the pair of its last 5 digits and the digits before
LoVal(digits) == Val(SubSeq(digits, IF Len(digits) > 5 THEN Len(digits) - 4 ELSE 1, Len(digits)))
HiVal(digits) == Val(SubSeq(digits, 1, Len(digits) - 5))

\* the digit a character stands for, 10 for any other character
CharDigit(c) ==
    CASE c = "0" -> 0 [] c = "1" -> 1 [] c = "2" -> 2 [] c = "3" -> 3 [] c = "4" -> 4
      [] c = "5" -> 5 [] c = "6" -> 6 [] c = "7" -> 7 [] c = "8" -> 8 [] c = "9" -> 9
      [] OTHER -> 10

\* the text between "area(" and the next ")" of a streets query
AreaNumeral(query) ==
    LET close == Min({k \in 17..Len(query) : query[k] = ")"})
    IN  SubSeq(query, 17, close - 1)

\* C9: the streets query selects area(osm_id + 3600000000) for a relation and
\* area(osm_id) for any other osm_type, the number written as a decimal
\* numeral in the query text.
C9_AreaSelector ==
    call.op = "build_streets_overpass_query"
      => LET numeral == AreaNumeral(call.result)
             area == [i \in 1..Len(numeral) |-> CharDigit(numeral[i])]
             id == call.location.osm_id
         IN  /\ SubSeq(call.result, 12, 16) = <<"a", "r", "e", "a", "(">>
             /\ Len(area) >= 1
             /\ \A i \in 1..Len(area) : area[i] < 10
             /\ Len(area) > 1 => area[1] # 0
             /\ IF call.location.osm_type = "relation"
                THEN HiVal(area) = HiVal(id) + 36000 /\ LoVal(area) = LoVal(id)
                ELSE area = id

\* C9 witness: relation 123 gave a query that reads area(3600000123)
C9_Witness ==
    /\ call.op = "build_streets_overpass_query"
    /\ call.location.osm_type = "relation"
    /\ call.location.osm_id = <<1, 2, 3>>
    /\ SubSeq(call.result, 12, 27) =
         <<"a", "r", "e", "a", "(", "3", "6", "0", "0", "0", "0", "0", "1", "2", "3", ")">>

(***************************************************************************)
(* Properties of the session (Spec)                                        *)
(***************************************************************************)
GenerateOps == {"generate_boundary", "generate_streets"}

\* every feature of a collection passes shape()
AllFeaturesValid(geojson) ==
    \A i \in 1..Len(geojson.features) : shape(geojson.features[i].geometry)

\* C5: a collection with a feature that fails validation is never in the
\* current result slot and never displayed, after a generate of either mode.
C5_InvalidCollectionNeverStored ==
    /\ \A g \in current_geojson : AllFeaturesValid(g)
    /\ call.op \in GenerateOps => \A d \in call.displayed : AllFeaturesValid(d.geojson)

\* a sub-request of the generate call c failed: the API was unreachable, the
\* status was not 2xx, the body was not JSON, or the osmnx fetch raised
ChunkFailed(reply) ==
    reply.kind = "connection_error" \/ reply.status < 200 \/ reply.status > 299 \/ ~reply.json

SubRequestFailed(c) ==
    \/ c.op = "generate_boundary"
         /\ \E k \in DOMAIN c.env.chunk_replies : ChunkFailed(c.env.chunk_replies[k])
    \/ c.op = "generate_streets" /\ The(c.location).osm_type = "relation"
         /\ ~c.env.geocode_raises
         /\ \E k \in DOMAIN c.env.grid : c.env.grid[k] = "raise"

\* C6: a generate one of whose sub-requests failed returns no result, in the
\* chunked path and in the grid path.
C6_GatherAllOrNothing ==
    (call.op \in GenerateOps /\ SubRequestFailed(call)) => call.returned = {}

\* the lookup or generate call c met a failure
OperationFailed(c) ==
    \/ c.op = "validate_location" /\ (c.env.kind = "request_exception" \/ c.env.body = <<>>)
    \/ c.op \in GenerateOps /\ SubRequestFailed(c)
    \/ c.op = "generate_streets"
         /\ (c.env.geocode_raises
               \/ (The(c.location).osm_type # "relation" /\ c.env.graph = "raise"))

HasError(messages) == \E i \in 1..Len(messages) : messages[i].kind = "error"

\* C7: no failure leaves validate_location or generate_geojson_wrapper as an
\* exception; a failed operation returns no result and shows an error.
C7_FailuresCaught ==
    call.op \in GenerateOps \cup {"validate_location"}
      => /\ ~call.fault
         /\ OperationFailed(call) => (call.returned = {} /\ HasError(call.messages))

\* the generate call c failed: a sub-request failed, the call raised or
\* returned nothing, or the collection has a feature that fails validation
FailedGenerate(c) ==
    \/ c.fault
    \/ c.returned = {}
    \/ OperationFailed(c)
    \/ \E g \in c.returned : ~AllFeaturesValid(g)

\* C8: a failed lookup changes no session state, a failed generate leaves
\* the result slot and the map type unchanged, and the slot changes only on a
\* successful generate, to exactly that generate's result and mode.
C8_FailedOperationsChangeNothing ==
    [][/\ (call'.op = "validate_location" /\ OperationFailed(call'))
            => UNCHANGED <<validated_location, current_geojson, map_type>>
       /\ (call'.op \in GenerateOps /\ FailedGenerate(call'))
            => UNCHANGED <<current_geojson, map_type>>
       /\ (current_geojson' # current_geojson \/ map_type' # map_type)
            => /\ call'.op \in GenerateOps
               /\ ~FailedGenerate(call')
               /\ current_geojson' = call'.returned
               /\ map_type' = {IF call'.op = "generate_boundary" THEN "boundary" ELSE "streets"}
      ]_vars

\* C10: whenever the result slot holds a collection, it was generated for the
\* currently validated location, and the header names that place.
C10_ResultBelongsToLocation ==
    /\ current_geojson # {} => geojson_for = validated_location
    /\ call.op \in GenerateOps \cup {"validate_location"}
         => \A d \in call.displayed : d.place = The(geojson_for).display_name

====
